---- MODULE Spec2Model ----
(***************************************************************************)
(* Model of the WhatsApp / Dialogflow CX relay:                            *)
(*   - WAwebhook            (whatsapp/index.js)                            *)
(*   - sessionManager.js    (getSessionId, readSessions, writeSessions,    *)
(*                           uploadFile, downloadFile, backupExistingFile) *)
(*   - agentCon.js          (main / detectIntent)                          *)
(* Strings are sequences of one-character strings.  The Cloud Storage      *)
(* object, the local sessions.json of every function instance, the clock   *)
(* (Date.now) and the requests in flight are the state.                    *)
(***************************************************************************)
EXTENDS Integers, Sequences, FiniteSets, TLC

VARIABLES
    vcall,      \* one call of verifySignature: its arguments and its result
                \* (or one clean-up of a Dialogflow answer: the answer and
                \* the text relayed)
    remote,     \* the object sessions.json in the bucket
    clock,      \* the last value Date.now() gave
    localFile,  \* instance -> the local sessions.json
    backups,    \* instance -> the *.bak files: timestamp -> content
    uploads,    \* the bucket.upload() calls in flight
    instOf,     \* request slot -> the instance (process) that serves it
    pc,         \* request slot -> position of the handler
    req,        \* request slot -> the HTTP request being served
    loc,        \* request slot -> the handler's local variables
    calls,      \* request slot -> the calls the request made, in order
    resp,       \* request slot -> the HTTP responses sent for the request
    nreq        \* request slot -> number of requests served so far

vars == <<vcall, remote, clock, localFile, backups, uploads, instOf, pc, req,
          loc, calls, resp, nreq>>

----------------------------------------------------------------------------
(* Bounds                                                                  *)

\* hex digits of a digest in the model (64 in the program)
DigestLen == 2
\* largest value of Date.now()
MaxClock == 1
\* requests one slot serves
MaxRequests == 2
\* the requests one instance serves when it serves two at a time
MaxLoads == 3
\* members of a sessions.json whose reading and rewriting is checked
MaxMembers == 3
\* characters of a Dialogflow answer whose clean-up is checked
MaxReply == 3

----------------------------------------------------------------------------
(* Strings                                                                 *)

Undefined == <<"undefined">>

RECURSIVE IndexOfFrom(_, _, _)
\* String.prototype.indexOf: first position >= i where pat occurs in s, 0 if none
IndexOfFrom(s, pat, i) ==
    IF i + Len(pat) - 1 > Len(s) THEN 0
    ELSE IF SubSeq(s, i, i + Len(pat) - 1) = pat THEN i
    ELSE IndexOfFrom(s, pat, i + 1)

\* String.prototype.replace(pat, '') with a string pattern: the FIRST
\* occurrence of pat is removed, wherever it is
ReplaceFirst(s, pat) ==
    LET i == IndexOfFrom(s, pat, 1)
    IN  IF i = 0 THEN s
        ELSE SubSeq(s, 1, i - 1) \o SubSeq(s, i + Len(pat), Len(s))

\* bytes of one character in UTF-8
Utf8Len(c) == IF c = "é" THEN 2 ELSE 1

RECURSIVE ByteLength(_)
\* Buffer.from(s, 'utf8').length
ByteLength(s) == IF s = <<>> THEN 0 ELSE Utf8Len(Head(s)) + ByteLength(Tail(s))

HexDigits == <<"0", "1", "2", "3", "4", "5", "6", "7",
               "8", "9", "a", "b", "c", "d", "e", "f">>

RECURSIVE ToHex(_, _)
\* n as w lower-case hex digits
ToHex(n, w) ==
    IF w = 0 THEN <<>> ELSE ToHex(n \div 16, w - 1) \o <<HexDigits[(n % 16) + 1]>>

RECURSIVE Pow(_, _)
Pow(b, e) == IF e = 0 THEN 1 ELSE b * Pow(b, e - 1)

----------------------------------------------------------------------------
(* verifySignature                                                         *)

Sha256Prefix == <<"s", "h", "a", "2", "5", "6", "=">>

\* raw request bodies (byte strings) and secrets of the model
RawBodies == << <<"x">>, <<"y">>, <<"x", "y">> >>
Secrets == << <<"k">>, <<"q">> >>
AppSecret == Secrets[1]

PosIn(seq, x) == CHOOSE i \in 1..Len(seq) : seq[i] = x

\* crypto.createHmac('sha256', secret).update(payload,'utf8').digest('hex'):
\* an ideal MAC, injective in (payload, secret), DigestLen hex digits long
HmacSha256Hex(payload, secret) ==
    LET idx == (PosIn(RawBodies, payload) - 1) * Len(Secrets) + PosIn(Secrets, secret)
    IN  ToHex((7 * idx + 3) % Pow(16, DigestLen), DigestLen)

\* a comparison that stops at the lengths of the two digests
verifySignatureMut(payload, signature, secret) ==
    IF signature = Undefined THEN "TypeError"
    ELSE LET hmacReceived == ReplaceFirst(signature, Sha256Prefix)
             digest == HmacSha256Hex(payload, secret)
         IN  IF ByteLength(hmacReceived) # ByteLength(digest) THEN "RangeError"
             ELSE "true"

\* verifySignature(payload, signature, secret): "true", "false", or the
\* exception it throws
verifySignature(payload, signature, secret) ==
    IF signature = Undefined THEN "TypeError"
    ELSE LET hmacReceived == ReplaceFirst(signature, Sha256Prefix)
             digest == HmacSha256Hex(payload, secret)
         IN  IF ByteLength(hmacReceived) # ByteLength(digest) THEN "RangeError"
             ELSE IF hmacReceived = digest THEN "true"
             ELSE "false"

\* the x-hub-signature-256 header a correct sender computes
SignatureOf(payload, secret) == Sha256Prefix \o HmacSha256Hex(payload, secret)

HeaderAlphabet == {"0", "1", "a", "g", "s", "=", "é"}

\* h with one character replaced
OneCharChanges(h) ==
    {[h EXCEPT ![i] = c] : i \in 1..Len(h), c \in HeaderAlphabet} \ {h}

\* the header values verifySignature is tried on
SignatureHeaders ==
    LET digests == {HmacSha256Hex(RawBodies[b], Secrets[s]) :
                        b \in 1..Len(RawBodies), s \in 1..Len(Secrets)}
        good == {Sha256Prefix \o d : d \in digests}
    IN  {Undefined, <<>>, Sha256Prefix}
        \cup good
        \cup digests
        \cup UNION {OneCharChanges(h) : h \in good}
        \cup UNION {OneCharChanges(d) : d \in digests}
        \cup {SubSeq(d, 1, k) \o Sha256Prefix \o SubSeq(d, k + 1, Len(d)) :
                d \in digests, k \in 1..DigestLen}
        \cup {Sha256Prefix \o Sha256Prefix \o d : d \in digests}
        \cup {Sha256Prefix \o SubSeq(d, 1, DigestLen - 1) : d \in digests}
        \cup {Sha256Prefix \o d \o <<c>> : d \in digests, c \in {"0", "é"}}

NoCall == [payload |-> <<>>, signature |-> <<>>, secret |-> <<>>, result |-> "idle"]

\* one call verifySignature(payload, signature, secret)
VerifyCall ==
    /\ vcall.result = "none"
    /\ vcall' = [vcall EXCEPT
                   !.result = verifySignature(vcall.payload, vcall.signature, vcall.secret)]
    /\ UNCHANGED <<remote, clock, localFile, backups, uploads, instOf, pc, req,
                   loc, calls, resp, nreq>>

----------------------------------------------------------------------------
(* Session store: sessions.json, its serialisation, session ids            *)

\* message.from values; both are integer-like property names
Users == {<<"7">>, <<"7", "1">>}
\* Object own-property order of integer-like keys: ascending
KeyOrder == << <<"7">>, <<"7", "1">> >>
\* Math.random().toString(36).substring(2, 15) values
Rands == {<<"1">>, <<"a">>}

Instances == {"i1", "i2"}
Procs == {"p1", "p2"}

NoFile == [exists |-> FALSE, ok |-> FALSE, entries |-> <<>>]
CorruptFile == [exists |-> TRUE, ok |-> FALSE, entries |-> <<>>]
JsonFile(entries) == [exists |-> TRUE, ok |-> TRUE, entries |-> entries]

NoSession == [random |-> <<>>, timestamp |-> <<>>, hash |-> <<>>, platform |-> "none"]

Base36Digits == <<"0", "1", "2", "3", "4", "5", "6", "7", "8", "9", "a", "b",
                  "c", "d", "e", "f", "g", "h", "i", "j", "k", "l", "m", "n",
                  "o", "p", "q", "r", "s", "t", "u", "v", "w", "x", "y", "z">>

RECURSIVE Base36(_)
\* Number.prototype.toString(36)
Base36(n) ==
    IF n < 36 THEN <<Base36Digits[n + 1]>>
    ELSE Base36(n \div 36) \o <<Base36Digits[(n % 36) + 1]>>

\* CryptoJS.SHA256(s).toString(Hex): an ideal hash, injective in s
Sha256Hex(s) == <<"#">> \o s

\* a generator whose hash leaves the user out, with a fixed random part
generateSessionIdMut(userId, randomString, now) ==
    [random |-> <<"a">>,
     timestamp |-> Base36(now),
     hash |-> Sha256Hex(<<"a">> \o Base36(now)),
     platform |-> "whatsapp"]

\* generateSessionId(userId) with the values Math.random and Date.now gave
generateSessionId(userId, randomString, now) ==
    [random |-> randomString,
     timestamp |-> Base36(now),
     hash |-> Sha256Hex(userId \o randomString \o Base36(now)),
     platform |-> "whatsapp"]

RECURSIVE StringifyFrom(_, _)
StringifyFrom(sessions, i) ==
    IF i > Len(KeyOrder) THEN <<>>
    ELSE (IF KeyOrder[i] \in DOMAIN sessions
          THEN << <<KeyOrder[i], sessions[KeyOrder[i]]>> >> ELSE <<>>)
         \o StringifyFrom(sessions, i + 1)

\* a serialisation that loses the first property
JsonStringifyMut(sessions) == StringifyFrom(sessions, 2)

\* JSON.stringify(sessions, null, 2): the members "key": value in property order
JsonStringify(sessions) == StringifyFrom(sessions, 1)

\* JSON.parse(data): the object of the members; a repeated key keeps its last value
JsonParse(entries) ==
    [k \in {entries[i][1] : i \in DOMAIN entries} |->
        LET last == CHOOSE i \in DOMAIN entries :
                        /\ entries[i][1] = k
                        /\ \A j \in DOMAIN entries : entries[j][1] = k => j <= i
        IN  entries[last][2]]

\* a mapping started afresh for the user
SetSessionMut(sessions, userId, sessionId) == [k \in {userId} |-> sessionId]

\* sessions[userId] = sessionId
SetSession(sessions, userId, sessionId) ==
    [k \in DOMAIN sessions \cup {userId} |->
        IF k = userId THEN sessionId ELSE sessions[k]]

\* the values Date.now() may give next: time does not run backwards
Now == clock..MaxClock

\* backupExistingFile(filePath) on instance i when Date.now() gives now:
\* rename to <path>.<now>.bak (a rename replaces a file of that name)
backupExistingFile(i, now) ==
    IF localFile[i].exists
    THEN /\ backups' = [backups EXCEPT ![i] =
                          [t \in DOMAIN backups[i] \cup {now} |->
                              IF t = now THEN localFile[i] ELSE backups[i][t]]]
         /\ localFile' = [localFile EXCEPT ![i] = NoFile]
         /\ clock' = now
    ELSE UNCHANGED <<backups, localFile, clock>>

----------------------------------------------------------------------------
(* WAwebhook: requests, responses, the calls a request makes               *)

Absent == "<undefined>"
WEBHOOK_VERIFY_TOKEN == "verify-token"
CHAT_ID == <<"CHAT_ID">>
TEST_ID == <<"TEST_ID">>

Modes == {"subscribe", "unsubscribe", Absent}
Tokens == {WEBHOOK_VERIFY_TOKEN, "other-token", Absent}
Challenges == {"1158201444", Absent}

\* message.text.body values
Texts == {<<"H", "i">>}
\* texts Dialogflow CX answers with
AiReplies == {<<"\"", "o", "\\", "k", "\"">>}

NoReq == [method |-> "none", kind |-> "none", from |-> <<>>, text |-> <<>>,
          rawBody |-> <<>>, signature |-> <<>>,
          mode |-> Absent, token |-> Absent, challenge |-> Absent,
          endpoint |-> "none", session |-> NoSession]

\* remote0 is the bucket's object when the request arrived; prior is the
\* session id getSessionId returned to the same sender in the request the
\* slot served before (history)
NoLoc == [remote0 |-> NoFile, fetched |-> NoFile, sessionId |-> NoSession,
          text |-> <<>>, phoneNumber |-> Undefined, prior |-> NoSession]

\* a call a request made: what, to whom, with which text and session id, and
\* whether the collaborator served it (a missing object is served: 404)
Ev(op) == [op |-> op, to |-> <<>>, text |-> <<>>, sid |-> NoSession, ok |-> TRUE]

Response(status, body) == [status |-> status, body |-> body]

\* String.prototype.trim (blanks only)
RECURSIVE TrimLeft(_)
TrimLeft(s) == IF s # <<>> /\ Head(s) = " " THEN TrimLeft(Tail(s)) ELSE s

RECURSIVE TrimRight(_)
TrimRight(s) ==
    IF s # <<>> /\ s[Len(s)] = " " THEN TrimRight(SubSeq(s, 1, Len(s) - 1)) ELSE s

Trim(s) == TrimRight(TrimLeft(s))

IsQuote(c) == c \in {"\"", "'"}

\* text.replace(/\\/g, '')
RemoveBackslashes(s) == SelectSeq(s, LAMBDA c : c # "\\")

\* s.replace(/^["']|["']$/g, ''): a quote at the start is removed, and a
\* quote at the end
StripLeadingQuote(s) == IF s # <<>> /\ IsQuote(Head(s)) THEN Tail(s) ELSE s

StripTrailingQuote(s) ==
    IF s # <<>> /\ IsQuote(s[Len(s)]) THEN SubSeq(s, 1, Len(s) - 1) ELSE s

\* the expression without its g flag: only the first match is removed
StripQuoteMut(s) ==
    IF s # <<>> /\ IsQuote(Head(s)) THEN Tail(s) ELSE StripTrailingQuote(s)

StripQuote(s) == StripTrailingQuote(StripLeadingQuote(s))

\* the clean-up of the Dialogflow answer
Sanitize(text) == StripQuote(Trim(RemoveBackslashes(text)))

\* a handshake that forgets to compare the token
HandshakeOkMut(mode, token) == mode = "subscribe"

\* the GET branch's test
HandshakeOk(mode, token) == mode = "subscribe" /\ token = WEBHOOK_VERIFY_TOKEN

\* a handler that runs the text pipeline on every message
IsTextMessageMut(kind) == TRUE

\* message?.type === "text"
IsTextMessage(kind) == kind = "text"

\* a getSessionId that creates a session on every call
NeedsNewSessionMut(sessions, userId) == TRUE

\* if (!sessions[userId])
NeedsNewSession(sessions, userId) == userId \notin DOMAIN sessions

\* readSessions' catch: returns {} for this error code, re-throws any other
ReadSessionsCatches(code) == code = "ENOENT"

\* the error of bucket.file().download(): the object is missing (404) or the
\* service cannot be reached (503)
DownloadErrorCode(available) == IF available THEN "404" ELSE "503"

\* a pipeline in which a failed notification reaches the handler's catch
PropagatesNotifyMut(step) ==
    step \in {"verify", "download", "parse", "ai", "reply", "read", "notify1", "notify2"}

\* a pipeline whose read receipt is best effort
PropagatesReadMut(step) == step \in {"verify", "download", "parse", "ai", "reply"}

\* a pipeline that swallows the failure of the Dialogflow call
PropagatesMut(step) == step \in {"verify", "download", "parse", "reply", "read"}

\* which failing step's exception reaches the handler's catch (-> 500);
\* sendMessage catches its own
Propagates(step) == step \in {"verify", "download", "parse", "ai", "reply", "read"}

\* a request arrives at slot p: the slot is free, the previous request's
\* finished uploads are forgotten
Arrive(p, r) ==
    /\ pc[p] \in {"idle", "done"}
    /\ nreq[p] < MaxRequests
    /\ req' = [req EXCEPT ![p] = r]
    /\ nreq' = [nreq EXCEPT ![p] = @ + 1]
    /\ loc' = [loc EXCEPT ![p] =
                 [NoLoc EXCEPT !.remote0 = remote,
                               !.prior = IF r.from = req[p].from
                                         THEN loc[p].sessionId
                                         ELSE NoSession]]

Forget(p) == {u \in uploads : ~(u.owner = p /\ u.st = "failed")}

\* GET: the subscription handshake
HandleGet(p, mode, token, challenge) ==
    /\ Arrive(p, [NoReq EXCEPT !.method = "GET", !.mode = mode, !.token = token,
                               !.challenge = challenge])
    /\ resp' = [resp EXCEPT ![p] =
                  IF HandshakeOk(mode, token)
                  THEN <<Response(200, challenge)>>
                  ELSE <<Response(403, "Forbidden")>>]
    /\ calls' = [calls EXCEPT ![p] = <<>>]
    /\ pc' = [pc EXCEPT ![p] = "done"]
    /\ uploads' = Forget(p)
    /\ UNCHANGED <<vcall, remote, clock, localFile, backups, instOf>>

\* a method that is neither POST nor GET: the handler returns without a response
HandleOtherMethod(p) ==
    /\ Arrive(p, [NoReq EXCEPT !.method = "PUT"])
    /\ resp' = [resp EXCEPT ![p] = <<>>]
    /\ calls' = [calls EXCEPT ![p] = <<>>]
    /\ pc' = [pc EXCEPT ![p] = "done"]
    /\ uploads' = Forget(p)
    /\ UNCHANGED <<vcall, remote, clock, localFile, backups, instOf>>

\* POST: the synchronous part of the handler, up to its first await.
\* kind is "none" (no message in the payload), "nontext" or "text".
HandlePost(p, kind, from, text, rawBody, signature, now) ==
    LET v == verifySignature(rawBody, signature, AppSecret)
        i == instOf[p]
        r == IF kind = "none"
             THEN [NoReq EXCEPT !.method = "POST", !.rawBody = rawBody,
                                !.signature = signature]
             ELSE [NoReq EXCEPT !.method = "POST", !.kind = kind, !.from = from,
                                !.text = text, !.rawBody = rawBody,
                                !.signature = signature]
    IN  /\ Arrive(p, r)
        /\ uploads' = Forget(p)
        /\ UNCHANGED <<vcall, remote, instOf>>
        /\ IF kind = "none" \/ ~IsTextMessage(kind)
           THEN /\ resp' = [resp EXCEPT ![p] = <<Response(200, "OK")>>]
                /\ calls' = [calls EXCEPT ![p] = <<>>]
                /\ pc' = [pc EXCEPT ![p] = "done"]
                /\ UNCHANGED <<localFile, backups, clock>>
           ELSE IF v = "true"
           THEN \* getSessionId -> readSessions -> downloadFile
                /\ backupExistingFile(i, now)
                /\ resp' = [resp EXCEPT ![p] = <<>>]
                /\ calls' = [calls EXCEPT ![p] = <<Ev("load")>>]
                /\ pc' = [pc EXCEPT ![p] = "download"]
           ELSE IF v = "false"
           THEN /\ resp' = [resp EXCEPT ![p] = <<Response(403, "Unexpected request")>>]
                /\ calls' = [calls EXCEPT ![p] = <<>>]
                /\ pc' = [pc EXCEPT ![p] = "done"]
                /\ UNCHANGED <<localFile, backups, clock>>
           ELSE \* verifySignature threw inside the try block
                /\ resp' = [resp EXCEPT ![p] =
                              IF Propagates("verify")
                              THEN <<Response(500, "Internal Server Error")>>
                              ELSE <<>>]
                /\ calls' = [calls EXCEPT ![p] = <<>>]
                /\ pc' = [pc EXCEPT ![p] = "done"]
                /\ UNCHANGED <<localFile, backups, clock>>

\* the catch block of the text pipeline
Fail500(p) ==
    /\ resp' = [resp EXCEPT ![p] = Append(@, Response(500, "Internal Server Error"))]
    /\ pc' = [pc EXCEPT ![p] = "done"]

\* bucket.file(fileName).download() answers
DownloadFetch(p, available) ==
    LET ok == available /\ remote.exists
        code == DownloadErrorCode(available)
    IN  /\ pc[p] = "download"
        /\ calls' = [calls EXCEPT ![p] =
                       Append(@, [Ev("download") EXCEPT !.ok = available])]
        /\ loc' = [loc EXCEPT ![p].fetched = IF ok THEN remote ELSE NoFile]
        /\ IF ok THEN /\ pc' = [pc EXCEPT ![p] = "dlwrite"]
                      /\ UNCHANGED resp
           ELSE IF ReadSessionsCatches(code)
           THEN /\ pc' = [pc EXCEPT ![p] = "dlempty"]
                /\ UNCHANGED resp
           ELSE IF Propagates("download") THEN Fail500(p)
           ELSE /\ pc' = [pc EXCEPT ![p] = "dlempty"]
                /\ UNCHANGED resp
        /\ UNCHANGED <<vcall, remote, clock, localFile, backups, uploads, instOf,
                       req, nreq>>

\* the downloaded object is written to the local sessions.json
DownloadWrite(p) ==
    /\ pc[p] = "dlwrite"
    /\ localFile' = [localFile EXCEPT ![instOf[p]] = loc[p].fetched]
    /\ pc' = [pc EXCEPT ![p] = "dlread"]
    /\ UNCHANGED <<vcall, remote, clock, backups, uploads, instOf, req, loc,
                   calls, resp, nreq>>

\* what readSessions yields once downloadFile is over: fs.readFileSync and
\* JSON.parse; a missing local file is ENOENT, an unparsable one a SyntaxError
ReadLocal(p) ==
    LET f == localFile[instOf[p]]
    IN  IF pc[p] = "dlempty" THEN [err |-> "", sessions |-> <<>>]
        ELSE IF ~f.exists
        THEN [err |-> IF ReadSessionsCatches("ENOENT") THEN "" ELSE "ENOENT",
              sessions |-> <<>>]
        ELSE IF ~f.ok THEN [err |-> "SyntaxError", sessions |-> <<>>]
        ELSE [err |-> "", sessions |-> JsonParse(f.entries)]

\* readSessions returns; getSessionId looks the user up and, for a new user,
\* generates an id, writes the local file and starts writeSessions' upload
\* WITHOUT awaiting it; the handler then calls main() (Dialogflow)
ResumeRead(p, randomString, now) ==
    LET i == instOf[p]
        rd == ReadLocal(p)
        userId == req[p].from
        isNew == NeedsNewSession(rd.sessions, userId)
        sessionId == IF isNew THEN generateSessionId(userId, randomString, now)
                     ELSE rd.sessions[userId]
    IN  /\ pc[p] \in {"dlread", "dlempty"}
        /\ IF rd.err # "" /\ Propagates("parse")
           THEN /\ Fail500(p)
                /\ UNCHANGED <<localFile, uploads, loc, calls, clock>>
           ELSE /\ clock' = IF isNew THEN now ELSE clock
                /\ localFile' =
                      IF isNew
                      THEN [localFile EXCEPT ![i] =
                              JsonFile(JsonStringify(SetSession(rd.sessions, userId, sessionId)))]
                      ELSE localFile
                /\ uploads' =
                      IF isNew
                      THEN uploads \cup {[owner |-> p, n |-> nreq[p], inst |-> i,
                                          st |-> "open", content |-> NoFile]}
                      ELSE uploads
                /\ calls' = [calls EXCEPT ![p] =
                               IF isNew THEN Append(@, Ev("write")) ELSE @]
                /\ loc' = [loc EXCEPT ![p].sessionId = sessionId]
                /\ pc' = [pc EXCEPT ![p] = "ai"]
                /\ UNCHANGED resp
        /\ UNCHANGED <<vcall, remote, backups, instOf, req, nreq>>

\* bucket.upload(sessionsFilePath) opens and reads the local file
UploadRead(u) ==
    LET f == localFile[u.inst]
    IN  /\ u.st = "open"
        /\ uploads' = (uploads \ {u}) \cup
                        {IF f.exists THEN [u EXCEPT !.st = "put", !.content = f]
                         ELSE [u EXCEPT !.st = "failed"]}
        /\ UNCHANGED <<vcall, remote, clock, localFile, backups, instOf, pc, req,
                       loc, calls, resp, nreq>>

\* the upload reaches the bucket and is over, or fails; uploadFile catches
\* and logs the error
UploadPut(u, available) ==
    /\ u.st = "put"
    /\ remote' = IF available THEN u.content ELSE remote
    /\ uploads' = IF available THEN uploads \ {u}
                  ELSE (uploads \ {u}) \cup {[u EXCEPT !.st = "failed", !.content = NoFile]}
    /\ UNCHANGED <<vcall, clock, localFile, backups, instOf, pc, req, loc, calls,
                   resp, nreq>>

\* main(text, sessionId, userId): detectIntent answers with a text, answers
\* without queryResult ("noresult"), or fails ("error")
DetectIntent(p, outcome) ==
    LET ok == outcome \notin {<<"noresult">>, <<"error">>}
    IN  /\ pc[p] = "ai"
        /\ calls' = [calls EXCEPT ![p] =
                       Append(@, [Ev("ai") EXCEPT !.text = req[p].text,
                                                  !.sid = loc[p].sessionId,
                                                  !.ok = ok])]
        /\ loc' = [loc EXCEPT ![p].text = IF ok THEN Sanitize(outcome) ELSE <<>>]
        /\ IF ok \/ ~Propagates("ai")
           THEN /\ pc' = [pc EXCEPT ![p] = "reply"]
                /\ UNCHANGED resp
           ELSE Fail500(p)
        /\ UNCHANGED <<vcall, remote, clock, localFile, backups, uploads, instOf,
                       req, nreq>>

\* an axios.post that is tried again, up to three times, when it fails
AxiosStepMut(p, step, event, ok, next) ==
    /\ pc[p] = step
    /\ calls' = [calls EXCEPT ![p] = Append(@, [event EXCEPT !.ok = ok])]
    /\ IF ok \/ ~Propagates(step)
       THEN /\ pc' = [pc EXCEPT ![p] = next]
            /\ resp' = [resp EXCEPT ![p] =
                          IF next = "done" THEN Append(@, Response(200, "OK")) ELSE @]
       ELSE IF Cardinality({k \in DOMAIN calls[p] : calls[p][k].op = event.op}) < 2
       THEN UNCHANGED <<pc, resp>>
       ELSE Fail500(p)
    /\ UNCHANGED <<vcall, remote, clock, localFile, backups, uploads, instOf,
                   req, loc, nreq>>

\* one awaited axios.post of the pipeline: it is logged, and either the
\* pipeline goes on to pc value next or the exception reaches the catch
AxiosStep(p, step, event, ok, next) ==
    /\ pc[p] = step
    /\ calls' = [calls EXCEPT ![p] = Append(@, [event EXCEPT !.ok = ok])]
    /\ IF ok \/ ~Propagates(step)
       THEN /\ pc' = [pc EXCEPT ![p] = next]
            /\ resp' = [resp EXCEPT ![p] =
                          IF next = "done" THEN Append(@, Response(200, "OK")) ELSE @]
       ELSE Fail500(p)
    /\ UNCHANGED <<vcall, remote, clock, localFile, backups, uploads, instOf,
                   req, loc, nreq>>

\* the answer is sent to message.from
SendReply(p, ok) ==
    AxiosStep(p, "reply",
              [Ev("reply") EXCEPT !.to = req[p].from, !.text = loc[p].text],
              ok, "read")

\* the inbound message is marked as read
MarkRead(p, ok) == AxiosStep(p, "read", Ev("read"), ok, "notify1")

\* the transcript with its three parts: sender, question, answer
Transcript(p) == req[p].from \o <<"|">> \o req[p].text \o <<"|">> \o loc[p].text

\* sendMessage(..., CHAT_ID)
NotifyMain(p, ok) ==
    AxiosStep(p, "notify1",
              [Ev("notify") EXCEPT !.to = CHAT_ID, !.text = Transcript(p)],
              ok, "notify2")

\* sendMessage(..., TEST_ID), then res.sendStatus(200)
NotifyTest(p, ok) ==
    AxiosStep(p, "notify2",
              [Ev("notify") EXCEPT !.to = TEST_ID, !.text = Transcript(p)],
              ok, "done")

----------------------------------------------------------------------------
(* The notification endpoints newAccident, newLead, newTech, newCom        *)

Endpoints == {"newAccident", "newLead", "newTech", "newCom"}

\* process.env.PHONE_NUMBER
phone_number == <<"PHONE_NUMBER">>

\* the fulfillmentText after the post was started
SuccessText(e) ==
    IF e = "newLead"
    THEN "Your request has been successfully created, please wait, we will contact you soon."
    ELSE "Your request has been successfully created, please wait, we will contact you shortly."

\* a handler that answers an error with the text of a success
FailureTextMut(e) ==
    IF e = "newLead"
    THEN "Your request has been successfully created, please wait, we will contact you soon."
    ELSE "Your request has been successfully created, please wait, we will contact you shortly."

\* the fulfillmentText of the catch block
FailureText(e) ==
    IF e \in {"newLead", "newTech"}
    THEN "Failed to create the request, please contact support."
    ELSE "Failed to create request, please contact support."

\* res.json({ fulfillmentText: text })
JsonResponse(text) == Response(200, [fulfillmentText |-> text])

RECURSIVE FindFrom(_, _, _)
FindFrom(sessions, sessionId, i) ==
    IF i > Len(KeyOrder) THEN Undefined
    ELSE IF KeyOrder[i] \in DOMAIN sessions /\ sessions[KeyOrder[i]] = sessionId
    THEN KeyOrder[i]
    ELSE FindFrom(sessions, sessionId, i + 1)

\* a lookup that takes the first key of the mapping, whatever its session id
FindKeyMut(sessions, sessionId) ==
    IF \E i \in 1..Len(KeyOrder) : KeyOrder[i] \in DOMAIN sessions
    THEN KeyOrder[CHOOSE i \in 1..Len(KeyOrder) :
                    /\ KeyOrder[i] \in DOMAIN sessions
                    /\ \A j \in 1..(i - 1) : KeyOrder[j] \notin DOMAIN sessions]
    ELSE Undefined

\* Object.keys(obj).find(key => obj[key] === sessionId)
FindKey(sessions, sessionId) == FindFrom(sessions, sessionId, 1)

\* a catch block that logs the error and sends no response
NotifyFailMut(p) ==
    /\ pc' = [pc EXCEPT ![p] = "done"]
    /\ UNCHANGED resp

\* the catch block of a notification endpoint
NotifyFail(p) ==
    /\ resp' = [resp EXCEPT ![p] = Append(@, JsonResponse(FailureText(req[p].endpoint)))]
    /\ pc' = [pc EXCEPT ![p] = "done"]

\* a request to endpoint e with query parameter X-SESSION = sessionId: the
\* handler up to its first await (readSessions -> downloadFile)
HandleNotify(p, e, sessionId, now) ==
    /\ Arrive(p, [NoReq EXCEPT !.method = "POST", !.endpoint = e,
                               !.session = sessionId])
    /\ backupExistingFile(instOf[p], now)
    /\ resp' = [resp EXCEPT ![p] = <<>>]
    /\ calls' = [calls EXCEPT ![p] = <<Ev("load")>>]
    /\ pc' = [pc EXCEPT ![p] = "nfetch"]
    /\ UNCHANGED <<vcall, remote, uploads, instOf>>

\* bucket.file(fileName).download() answers the endpoint
NotifyFetch(p, available) ==
    LET ok == available /\ remote.exists
    IN  /\ pc[p] = "nfetch"
        /\ calls' = [calls EXCEPT ![p] =
                       Append(@, [Ev("download") EXCEPT !.ok = available])]
        /\ loc' = [loc EXCEPT ![p].fetched = IF ok THEN remote ELSE NoFile]
        /\ IF ok THEN /\ pc' = [pc EXCEPT ![p] = "nwrite"]
                      /\ UNCHANGED resp
           ELSE IF ReadSessionsCatches(DownloadErrorCode(available))
           THEN /\ pc' = [pc EXCEPT ![p] = "dlempty"]
                /\ UNCHANGED resp
           ELSE NotifyFail(p)
        /\ UNCHANGED <<vcall, remote, clock, localFile, backups, uploads, instOf,
                       req, nreq>>

\* the downloaded object is written to the endpoint's local sessions.json
NotifyWrite(p) ==
    /\ pc[p] = "nwrite"
    /\ localFile' = [localFile EXCEPT ![instOf[p]] = loc[p].fetched]
    /\ pc' = [pc EXCEPT ![p] = "nread"]
    /\ UNCHANGED <<vcall, remote, clock, backups, uploads, instOf, req, loc,
                   calls, resp, nreq>>

\* readSessions returns; the handler looks the session id up, starts the
\* axios.post of the template to phone_number without awaiting it (its
\* outcome postOk is only logged) and answers
NotifyResume(p, postOk) ==
    LET rd == ReadLocal(p)
        phoneNumber == FindKey(rd.sessions, req[p].session)
    IN  /\ pc[p] \in {"nread", "dlempty"}
        /\ IF rd.err # ""
           THEN /\ NotifyFail(p)
                /\ UNCHANGED <<loc, calls>>
           ELSE /\ loc' = [loc EXCEPT ![p].phoneNumber = phoneNumber]
                /\ calls' = [calls EXCEPT ![p] =
                               Append(@, [Ev("post") EXCEPT !.to = phone_number,
                                                            !.text = phoneNumber,
                                                            !.sid = req[p].session,
                                                            !.ok = postOk])]
                /\ resp' = [resp EXCEPT ![p] =
                              Append(@, JsonResponse(SuccessText(req[p].endpoint)))]
                /\ pc' = [pc EXCEPT ![p] = "done"]
        /\ UNCHANGED <<vcall, remote, clock, localFile, backups, uploads, instOf,
                       req, nreq>>

----------------------------------------------------------------------------
(* Initial states and specifications                                       *)

\* a session id written by an earlier run
OldSession(userId) == generateSessionId(userId, <<"o">>, 0)

\* the bucket at the start: no object yet, an unreadable object, the empty
\* mapping, or a mapping that holds the first user
InitialRemotes ==
    {NoFile, CorruptFile, JsonFile(<<>>),
     JsonFile(<< <<KeyOrder[1], OldSession(KeyOrder[1])>> >>)}

\* no instance has a local file yet, no request was made
InitLocal ==
    /\ clock = 0
    /\ localFile = [i \in Instances |-> NoFile]
    /\ backups = [i \in Instances |-> <<>>]
    /\ uploads = {}
    /\ pc = [p \in Procs |-> "idle"]
    /\ req = [p \in Procs |-> NoReq]
    /\ loc = [p \in Procs |-> NoLoc]
    /\ calls = [p \in Procs |-> <<>>]
    /\ resp = [p \in Procs |-> <<>>]
    /\ nreq = [p \in Procs |-> 0]

InitStore ==
    /\ remote \in InitialRemotes
    /\ InitLocal

\* every request slot is an instance of its own
Init ==
    /\ InitStore
    /\ vcall = NoCall
    /\ instOf = [p \in Procs |-> IF p = "p1" THEN "i1" ELSE "i2"]

\* the x-hub-signature-256 values tried on the webhook for a body: the right
\* one, one of the right length and wrong content, one too short, none
WebhookHeaders(rawBody) ==
    LET good == SignatureOf(rawBody, AppSecret)
    IN  {good, [good EXCEPT ![Len(good)] = "g"], SubSeq(good, 1, Len(good) - 1),
         Undefined}

\* the steps of the text pipeline of slot p; oks are the outcomes the
\* collaborators may have, answers what Dialogflow may answer, rands what
\* Math.random may give
Pipeline(p, oks, answers, rands) ==
    \/ \E a \in oks : DownloadFetch(p, a)
    \/ DownloadWrite(p)
    \/ \E r \in rands, now \in Now : ResumeRead(p, r, now)
    \/ \E o \in answers : DetectIntent(p, o)
    \/ \E ok \in oks : SendReply(p, ok)
    \/ \E ok \in oks : MarkRead(p, ok)
    \/ \E ok \in oks : NotifyMain(p, ok)
    \/ \E ok \in oks : NotifyTest(p, ok)

\* the uploads in flight
Background(oks) ==
    \/ \E u \in uploads : UploadRead(u)
    \/ \E u \in uploads, a \in oks : UploadPut(u, a)

\* every kind of request at the slots P
Requests(P) ==
    \/ \E p \in P, m \in Modes, t \in Tokens, c \in Challenges : HandleGet(p, m, t, c)
    \/ \E p \in P : HandleOtherMethod(p)
    \/ \E p \in P, k \in {"none", "nontext", "text"}, u \in Users, t \in Texts,
          s \in WebhookHeaders(RawBodies[1]), now \in Now :
            HandlePost(p, k, u, t, RawBodies[1], s, now)

\* one instance serving one request after the other
Next ==
    \/ Requests({"p1"})
    \/ Pipeline("p1", BOOLEAN, AiReplies \cup {<<"noresult">>, <<"error">>}, {<<"a">>})
    \/ Background(BOOLEAN)

Spec == Init /\ [][Next]_vars

\* two instances, each serving one validly signed text message, at the same
\* time or one after the other, with every collaborator available
NextConc ==
    \/ \E p \in Procs, u \in Users, t \in Texts, now \in Now :
          /\ nreq[p] = 0
          /\ HandlePost(p, "text", u, t, RawBodies[1],
                        SignatureOf(RawBodies[1], AppSecret), now)
    \/ \E p \in Procs : Pipeline(p, {TRUE}, AiReplies, Rands)
    \/ Background({TRUE})

SpecConc == Init /\ [][NextConc]_vars

\* calls of verifySignature on every body, header and secret of the model
InitVerify ==
    /\ InitStore
    /\ remote = NoFile
    /\ instOf = [p \in Procs |-> IF p = "p1" THEN "i1" ELSE "i2"]
    /\ vcall \in [payload : {RawBodies[b] : b \in 1..Len(RawBodies)},
                  signature : SignatureHeaders,
                  secret : {Secrets[k] : k \in 1..Len(Secrets)},
                  result : {"none"}]

SpecVerify == InitVerify /\ [][VerifyCall]_vars

\* one instance serving two validly signed text messages at a time, while
\* Dialogflow is down: both slots work on the same local sessions.json, and
\* every request ends after getSessionId
InitShared ==
    /\ InitStore
    /\ vcall = NoCall
    /\ instOf = [p \in Procs |-> "i1"]

NextShared ==
    \/ \E p \in Procs, u \in Users, t \in Texts, now \in Now :
          /\ nreq["p1"] + nreq["p2"] < MaxLoads
          /\ HandlePost(p, "text", u, t, RawBodies[1],
                        SignatureOf(RawBodies[1], AppSecret), now)
    \/ \E p \in Procs : DownloadFetch(p, TRUE)
    \/ \E p \in Procs : DownloadWrite(p)
    \/ \E p \in Procs, now \in Now : ResumeRead(p, <<"a">>, now)
    \/ \E p \in Procs : DetectIntent(p, <<"error">>)
    \/ Background({TRUE})

SpecShared == InitShared /\ [][NextShared]_vars

\* the session ids found in a stored mapping
StoredIds == {OldSession(KeyOrder[i]) : i \in 1..Len(KeyOrder)}

\* the member lists "key": value of a sessions.json, in any order and with
\* repeated keys
RECURSIVE MemberLists(_)
MemberLists(n) ==
    IF n = 0 THEN {<<>>}
    ELSE LET shorter == MemberLists(n - 1)
         IN  shorter \cup {Append(m, <<u, v>>) : m \in shorter, u \in Users, v \in StoredIds}

\* what readSessions yields for the bucket's object is written back by
\* writeSessions: JSON.parse, then JSON.stringify and the upload
LoadSave(p) ==
    LET sessions == JsonParse(remote.entries)
        written == JsonFile(JsonStringify(sessions))
    IN  /\ pc[p] = "idle"
        /\ remote.exists /\ remote.ok
        /\ loc' = [loc EXCEPT ![p].remote0 = remote, ![p].fetched = remote]
        /\ localFile' = [localFile EXCEPT ![instOf[p]] = written]
        /\ remote' = written
        /\ pc' = [pc EXCEPT ![p] = "done"]
        /\ UNCHANGED <<vcall, clock, backups, uploads, instOf, req, calls, resp, nreq>>

InitRoundTrip ==
    /\ remote \in {JsonFile(m) : m \in MemberLists(MaxMembers)}
    /\ InitLocal
    /\ vcall = NoCall
    /\ instOf = [p \in Procs |-> IF p = "p1" THEN "i1" ELSE "i2"]

\* reading and rewriting every sessions.json of up to MaxMembers members
SpecRoundTrip == InitRoundTrip /\ [][LoadSave("p1")]_vars

\* the characters of the answers tried: backslash, both quotes, blank, letter
ReplyChars == {"\\", "\"", "'", " ", "k"}

\* the answers of up to n characters
RECURSIVE ReplyTexts(_)
ReplyTexts(n) ==
    IF n = 0 THEN {<<>>}
    ELSE LET shorter == ReplyTexts(n - 1)
         IN  shorter \cup {Append(t, c) : t \in shorter, c \in ReplyChars}

\* the two clean-up statements applied to the text main() returned
CleanUp ==
    /\ vcall.result = "none"
    /\ vcall' = [vcall EXCEPT !.relayed = Sanitize(vcall.reply),
                              !.result = "relayed"]
    /\ UNCHANGED <<remote, clock, localFile, backups, uploads, instOf, pc, req,
                   loc, calls, resp, nreq>>

InitSanitize ==
    /\ InitLocal
    /\ remote = NoFile
    /\ instOf = [p \in Procs |-> IF p = "p1" THEN "i1" ELSE "i2"]
    /\ vcall \in [reply : ReplyTexts(MaxReply), relayed : {<<>>}, result : {"none"}]

\* the clean-up of every answer of up to MaxReply characters
SpecSanitize == InitSanitize /\ [][CleanUp]_vars

\* a session id no entry holds
UnknownSession == generateSessionId(<<"0">>, <<"z">>, 0)

\* the X-SESSION values tried: the ids of the stored users, an unknown id,
\* and no parameter at all
SessionParams ==
    {OldSession(KeyOrder[i]) : i \in 1..Len(KeyOrder)} \cup {UnknownSession, NoSession}

\* the bucket as the notification endpoints may find it: as at the start, or
\* holding both users
NotifyRemotes ==
    InitialRemotes \cup
    {JsonFile(<< <<KeyOrder[1], OldSession(KeyOrder[1])>>,
                 <<KeyOrder[2], OldSession(KeyOrder[2])>> >>)}

InitNotify ==
    /\ remote \in NotifyRemotes
    /\ InitLocal
    /\ vcall = NoCall
    /\ instOf = [p \in Procs |-> IF p = "p1" THEN "i1" ELSE "i2"]

\* one instance of a notification endpoint serving one request after the other
NextNotify ==
    \/ \E e \in Endpoints, sid \in SessionParams, now \in Now :
          HandleNotify("p1", e, sid, now)
    \/ \E a \in BOOLEAN : NotifyFetch("p1", a)
    \/ NotifyWrite("p1")
    \/ \E ok \in BOOLEAN : NotifyResume("p1", ok)

SpecNotify == InitNotify /\ [][NextNotify]_vars

----------------------------------------------------------------------------
(* Properties                                                              *)

\* the file holds a readable mapping with an entry for userId
Known(file, userId) ==
    file.exists /\ file.ok /\ userId \in DOMAIN JsonParse(file.entries)

Lookup(file, userId) == JsonParse(file.entries)[userId]

\* the header is the one a sender knowing the secret computes for the body
SignatureGood(p) == req[p].signature = SignatureOf(req[p].rawBody, AppSecret)

TextPost(p) == req[p].method = "POST" /\ req[p].kind = "text"

Resolved(p) == loc[p].sessionId # NoSession

CallsOf(p, op) == {k \in DOMAIN calls[p] : calls[p][k].op = op}

\* the header without a leading "sha256="
WithoutPrefix(signature) ==
    IF Len(signature) >= Len(Sha256Prefix)
       /\ SubSeq(signature, 1, Len(Sha256Prefix)) = Sha256Prefix
    THEN SubSeq(signature, Len(Sha256Prefix) + 1, Len(signature))
    ELSE signature

\* C1: a text POST whose signature is bad or missing is answered 403 and
\* makes no store access and no call to a collaborator
C1_BadSignatureRejected ==
    \A p \in Procs :
        (pc[p] = "done" /\ TextPost(p) /\ ~SignatureGood(p))
        => /\ resp[p] = <<Response(403, "Unexpected request")>>
           /\ calls[p] = <<>>

\* C2: verifySignature never raises: it returns a boolean for every header,
\* and false whenever the header is absent or differs from the digest in
\* length or content
C2_VerifyNeverRaises ==
    vcall.result \notin {"idle", "none"}
    => /\ vcall.result \in {"true", "false"}
       /\ (vcall.signature = Undefined
           \/ WithoutPrefix(vcall.signature)
                # HmacSha256Hex(vcall.payload, vcall.secret))
          => vcall.result = "false"

\* C3: verifySignature returns true only when the header without its
\* "sha256=" prefix is the hex HMAC of the body under the secret, and then
\* no header and no body that differs in one byte is accepted
C3_TrueOnlyForExactMac ==
    vcall.result = "true"
    => /\ WithoutPrefix(vcall.signature)
            = HmacSha256Hex(vcall.payload, vcall.secret)
       /\ \A h \in OneCharChanges(vcall.signature) :
             verifySignature(vcall.payload, h, vcall.secret) # "true"
       /\ \A b \in 1..Len(RawBodies) :
             RawBodies[b] # vcall.payload
             => verifySignature(RawBodies[b], vcall.signature, vcall.secret) # "true"

C4_HandshakeAnswer ==
    \A p \in Procs :
        (pc[p] = "done" /\ req[p].method = "GET")
        => /\ resp[p] = <<IF req[p].mode = "subscribe"
                             /\ req[p].token = WEBHOOK_VERIFY_TOKEN
                          THEN Response(200, req[p].challenge)
                          ELSE Response(403, "Forbidden")>>
           /\ calls[p] = <<>>

\* a step in which slot p takes up a request
Arrives(p) == nreq'[p] # nreq[p]

\* the step starts no upload and leaves the bucket and the local files alone
StoreUntouched ==
    /\ UNCHANGED <<remote, localFile, backups>>
    /\ uploads' \subseteq uploads

\* C4: a GET is answered 200 with the challenge exactly when hub.mode is
\* "subscribe" and hub.verify_token is the configured token, and 403
\* otherwise; the handshake touches neither the store nor a collaborator
C4_Handshake ==
    /\ []C4_HandshakeAnswer
    /\ [][\A p \in Procs :
            (Arrives(p) /\ req'[p].method = "GET") => StoreUntouched]_vars

C4_Witness ==
    \E p \in Procs :
        /\ pc[p] = "done" /\ req[p].method = "GET"
        /\ resp[p] = <<Response(200, "1158201444")>>
        /\ remote.exists

\* C5: once getSessionId has returned the id of a user who was not in the
\* store, the persisted snapshot maps the user to that id
C5_PersistedOnReturn ==
    \A p \in Procs :
        (Resolved(p) /\ ~Known(loc[p].remote0, req[p].from))
        => /\ Known(remote, req[p].from)
           /\ Lookup(remote, req[p].from) = loc[p].sessionId

AllServed(p) ==
    /\ \A k \in DOMAIN calls[p] : calls[p][k].ok
    /\ ~\E u \in uploads : u.owner = p /\ u.st = "failed"
    /\ ~(loc[p].fetched.exists /\ ~loc[p].fetched.ok)

\* C7: when two concurrent getSessionId calls for the same unseen user are
\* over, the snapshot holds one entry for the user, the id one of the two
\* calls returned, and the entries of the other users are as before
C7_ConcurrentCreate ==
    (/\ \A p \in Procs : pc[p] = "done" /\ TextPost(p)
     /\ uploads = {}
     /\ req["p1"].from = req["p2"].from
     /\ \A p \in Procs : ~Known(loc[p].remote0, req[p].from))
    => /\ Known(remote, req["p1"].from)
       /\ Lookup(remote, req["p1"].from) \in {loc[p].sessionId : p \in Procs}
       /\ \A v \in Users :
            Known(loc["p1"].remote0, v)
            => Known(remote, v) /\ Lookup(remote, v) = Lookup(loc["p1"].remote0, v)

\* C8: a validly signed text message of a new user, all collaborators
\* succeeding: the store has gained the sender's entry, Dialogflow was called
\* once with the text and the new id, the answer went to the sender, two
\* notifications went out and the response is 200
C8_NewUserScenario ==
    \A p \in Procs :
        (/\ pc[p] = "done" /\ TextPost(p) /\ SignatureGood(p)
         /\ ~Known(loc[p].remote0, req[p].from)
         /\ AllServed(p))
        => /\ resp[p] = <<Response(200, "OK")>>
           /\ Known(remote, req[p].from)
           /\ Lookup(remote, req[p].from) = loc[p].sessionId
           /\ \E k \in DOMAIN calls[p] :
                /\ CallsOf(p, "ai") = {k}
                /\ calls[p][k].text = req[p].text
                /\ calls[p][k].sid = loc[p].sessionId
           /\ \E k \in DOMAIN calls[p] :
                /\ CallsOf(p, "reply") = {k}
                /\ calls[p][k].to = req[p].from
           /\ {calls[p][k].to : k \in CallsOf(p, "notify")} = {CHAT_ID, TEST_ID}
           /\ Cardinality(CallsOf(p, "notify")) = 2

C9_NoOpAnswer ==
    \A p \in Procs :
        (pc[p] = "done" /\ req[p].method = "POST" /\ req[p].kind # "text")
        => /\ resp[p] = <<Response(200, "OK")>>
           /\ calls[p] = <<>>

\* C9: a POST without a message, or with a message that is not text, is
\* answered 200 and neither reads nor writes the store nor calls anyone
C9_NoOp ==
    /\ []C9_NoOpAnswer
    /\ [][\A p \in Procs :
            (Arrives(p) /\ req'[p].method = "POST" /\ req'[p].kind # "text")
            => StoreUntouched]_vars

C9_Witness ==
    \E p \in Procs :
        /\ pc[p] = "done" /\ req[p].method = "POST" /\ req[p].kind = "nontext"
        /\ resp[p] = <<Response(200, "OK")>>
        /\ remote.exists

\* the call k of request p failed, or it is the download of a snapshot that
\* cannot be parsed
FailedAt(p, k) ==
    \/ calls[p][k].op \in {"download", "ai", "reply"} /\ ~calls[p][k].ok
    \/ /\ calls[p][k].op = "download"
       /\ ~loc[p].fetched.ok
       /\ pc[p] \notin {"download", "dlwrite", "dlread", "dlempty"}

\* C10: when the store load, the Dialogflow call or the delivery of the
\* answer fails, no later step of the pipeline is made and the response is 500
C10_FailureAborts ==
    \A p \in Procs : \A k \in DOMAIN calls[p] :
        FailedAt(p, k)
        => /\ k = Len(calls[p])
           /\ pc[p] = "done"
           /\ resp[p] = <<Response(500, "Internal Server Error")>>

C10_Witness ==
    \E p \in Procs :
        /\ pc[p] = "done"
        /\ \E k \in CallsOf(p, "ai") : ~calls[p][k].ok
        /\ CallsOf(p, "write") # {}
        /\ resp[p] = <<Response(500, "Internal Server Error")>>

\* the request made a call op that failed
FailedCall(p, op) == \E k \in CallsOf(p, op) : ~calls[p][k].ok

\* the destinations of the request's notification sends
Notified(p) == {calls[p][k].to : k \in CallsOf(p, "notify")}

\* C11: a failed read receipt after a delivered answer does not fail the
\* request: the response is 200 and both notifications are attempted
C11_ReadReceiptBestEffort ==
    \A p \in Procs :
        (pc[p] = "done" /\ FailedCall(p, "read"))
        => /\ resp[p] = <<Response(200, "OK")>>
           /\ Notified(p) = {CHAT_ID, TEST_ID}

\* C12: whichever notification send fails, the other destination is still
\* attempted and the response is 200
C12_NotifyNotPropagated ==
    \A p \in Procs :
        /\ (CallsOf(p, "notify") # {} /\ ~(\E k \in CallsOf(p, "notify") : calls[p][k].to = TEST_ID))
           => pc[p] = "notify2" /\ resp[p] = <<>>
        /\ (pc[p] = "done" /\ CallsOf(p, "notify") # {})
           => /\ resp[p] = <<Response(200, "OK")>>
              /\ Notified(p) = {CHAT_ID, TEST_ID}
              /\ Cardinality(CallsOf(p, "notify")) = 2

C12_Witness ==
    \E p \in Procs :
        /\ pc[p] = "done"
        /\ Cardinality(CallsOf(p, "notify")) = 2
        /\ \A k \in CallsOf(p, "notify") : ~calls[p][k].ok
        /\ resp[p] = <<Response(200, "OK")>>

\* the place of a call in the pipeline
Rank(op) ==
    CASE op = "load" -> 1 [] op = "download" -> 2 [] op = "write" -> 3
      [] op = "ai" -> 4 [] op = "reply" -> 5 [] op = "read" -> 6
      [] op = "notify" -> 7 [] OTHER -> 0

\* the request made a call op that was served
ServedCall(p, op) == \E k \in CallsOf(p, op) : calls[p][k].ok

\* C13: the steps of a text request come in order: the session id is resolved
\* before Dialogflow is called, Dialogflow has answered before the answer is
\* sent, the read receipt and the notifications come only after the answer
\* was delivered, and once it was delivered they are all attempted
C13_StepOrder ==
    \A p \in Procs :
        /\ \A j, k \in DOMAIN calls[p] :
              j < k => Rank(calls[p][j].op) <= Rank(calls[p][k].op)
        /\ \A k \in CallsOf(p, "ai") :
              Resolved(p) /\ calls[p][k].sid = loc[p].sessionId
        /\ CallsOf(p, "reply") # {} => ServedCall(p, "ai")
        /\ CallsOf(p, "read") \cup CallsOf(p, "notify") # {} => ServedCall(p, "reply")
        /\ (pc[p] = "done" /\ ServedCall(p, "reply"))
           => /\ CallsOf(p, "read") # {}
              /\ Notified(p) = {CHAT_ID, TEST_ID}

\* the upload the current request of p started has failed
UploadFailed(p) ==
    \E u \in uploads : u.owner = p /\ u.n = nreq[p] /\ u.st = "failed"

\* C14: when the bucket cannot be reached while the snapshot is downloaded or
\* while the updated snapshot is uploaded, getSessionId returns no session id
\* and the request is answered 500
C14_StorageErrorsPropagate ==
    \A p \in Procs :
        (pc[p] = "done" /\ TextPost(p) /\ (FailedCall(p, "download") \/ UploadFailed(p)))
        => /\ ~Resolved(p)
           /\ resp[p] = <<Response(500, "Internal Server Error")>>

\* the download of the request found the bucket reachable and no object in it
FoundNoObject(p) ==
    /\ pc[p] # "download"
    /\ ServedCall(p, "download")
    /\ ~loc[p].fetched.exists

\* C15: a bucket without the snapshot object is loaded as the empty mapping:
\* the request resolves a session id and creates the first entry
C15_MissingSnapshotIsEmpty ==
    \A p \in Procs :
        (pc[p] = "done" /\ TextPost(p) /\ FoundNoObject(p))
        => /\ Resolved(p)
           /\ CallsOf(p, "write") # {}

\* the request of slot p is one to a notification endpoint
NotifyReq(p) == req[p].endpoint \in Endpoints

\* no entry of the file maps a user to the session id
NoMatch(file, sessionId) ==
    \A u \in Users : Known(file, u) => Lookup(file, u) # sessionId

\* the snapshot was downloaded and parsed
Loaded(p) ==
    /\ ServedCall(p, "download")
    /\ loc[p].fetched.exists
    /\ loc[p].fetched.ok

\* C16: an endpoint called with a session id that no entry of the store
\* holds, the snapshot missing included, still attempts the post, with the
\* identity absent, and answers with the text of a success
C16_UnknownSession ==
    \A p \in Procs :
        (/\ pc[p] = "done" /\ NotifyReq(p)
         /\ \/ FoundNoObject(p)
            \/ Loaded(p) /\ NoMatch(loc[p].fetched, req[p].session))
        => /\ resp[p] = <<JsonResponse(SuccessText(req[p].endpoint))>>
           /\ \E k \in DOMAIN calls[p] :
                /\ CallsOf(p, "post") = {k}
                /\ calls[p][k].text = Undefined

\* C17: every call of a notification endpoint is answered exactly once, with
\* a JSON object that has a fulfillmentText, whatever happened to the load of
\* the store and to the post
C17_OneJsonResponse ==
    \A p \in Procs :
        NotifyReq(p)
        => /\ Len(resp[p]) = IF pc[p] = "done" THEN 1 ELSE 0
           /\ \A k \in DOMAIN resp[p] :
                /\ resp[p][k].status = 200
                /\ DOMAIN resp[p][k].body = {"fulfillmentText"}
                /\ resp[p][k].body.fulfillmentText
                     \in {SuccessText(req[p].endpoint), FailureText(req[p].endpoint)}

C17_Witness ==
    \E p \in Procs :
        /\ pc[p] = "done" /\ NotifyReq(p)
        /\ FailedCall(p, "download")
        /\ nreq[p] = 2
        /\ Len(resp[p]) = 1

\* the request met an internal error: the bucket unreachable, the snapshot
\* unparsable, or the post failing
InternalError(p) ==
    \/ FailedCall(p, "download")
    \/ ServedCall(p, "download") /\ loc[p].fetched.exists /\ ~loc[p].fetched.ok
    \/ FailedCall(p, "post")

\* C18: on an internal error of a notification endpoint the caller gets the
\* same text as on success
C18_UniformAcknowledgment ==
    \A p \in Procs :
        (pc[p] = "done" /\ NotifyReq(p) /\ InternalError(p))
        => resp[p] = <<JsonResponse(SuccessText(req[p].endpoint))>>

\* the texts that tell the caller that the request was not created
FailureTexts ==
    {"Failed to create request, please contact support.",
     "Failed to create the request, please contact support."}

\* C18 as amended: a failed load of the store (bucket unreachable, snapshot
\* unparsable) is answered with the endpoint's fixed failure text and no post
\* is made; a failed post is answered with the success text
C18_Acknowledgment ==
    \A p \in Procs :
        (pc[p] = "done" /\ NotifyReq(p) /\ InternalError(p))
        => IF FailedCall(p, "post")
           THEN resp[p] = <<JsonResponse(SuccessText(req[p].endpoint))>>
           ELSE /\ Len(resp[p]) = 1
                /\ resp[p][1].status = 200
                /\ resp[p][1].body.fulfillmentText \in FailureTexts
                /\ CallsOf(p, "post") = {}

C18_Witness ==
    \E p \in Procs :
        /\ pc[p] = "done" /\ NotifyReq(p)
        /\ ServedCall(p, "download") /\ loc[p].fetched.exists /\ ~loc[p].fetched.ok
        /\ resp[p][1].body.fulfillmentText \in FailureTexts

StartsLoad(p) == Arrives(p) /\ calls'[p] = <<Ev("load")>>

\* C20: a load renames the local snapshot file, if there is one, to a backup
\* before it fetches, and no step deletes a backup or changes what it holds
C20_BackupsKept ==
    [][/\ \A p \in Procs :
            (StartsLoad(p) /\ localFile[instOf[p]].exists)
            => /\ ~localFile'[instOf[p]].exists
               /\ \E t \in DOMAIN backups'[instOf[p]] :
                     backups'[instOf[p]][t] = localFile[instOf[p]]
       /\ \A i \in Instances : \A t \in DOMAIN backups[i] :
            /\ t \in DOMAIN backups'[i]
            /\ backups'[i][t] = backups[i][t]]_vars

\* the entries of a file: the users with their session ids
Entries(file) == {<<u, Lookup(file, u)>> : u \in {v \in Users : Known(file, v)}}

\* the last member of the list with key u
LastMember(members, u) ==
    LET at == {i \in DOMAIN members : members[i][1] = u}
    IN  members[CHOOSE i \in at : \A j \in at : j <= i][2]

\* C21: writing back what was read leaves the mapping as it was: the object
\* in the bucket afterwards has the same user to session id entries as before
C21_RoundTrip ==
    \A p \in Procs :
        pc[p] = "done"
        => /\ Entries(remote) = Entries(loc[p].remote0)
           /\ \A u \in Users :
                LET before == loc[p].remote0.entries
                    present == \E i \in DOMAIN before : before[i][1] = u
                IN  /\ Known(remote, u) <=> present
                    /\ present => Lookup(remote, u) = LastMember(before, u)
           /\ remote.exists /\ remote.ok

C21_Witness ==
    \E p \in Procs :
        /\ pc[p] = "done"
        /\ Len(loc[p].remote0.entries) = 3
        /\ loc[p].remote0.entries[1][1] = KeyOrder[2]
        /\ loc[p].remote0.entries[2][1] = KeyOrder[1]
        /\ loc[p].remote0.entries[3][1] = KeyOrder[2]
        /\ loc[p].remote0.entries[1][2] # loc[p].remote0.entries[3][2]
        /\ Len(remote.entries) = 2

\* C22: within one request every external call is made at most once, served
\* or not: the download, the upload, the Dialogflow call, the answer, the
\* read receipt, the send to each notification destination, the template post
C22_NoRetries ==
    \A p \in Procs :
        /\ \A op \in {"load", "download", "write", "ai", "reply", "read", "post"} :
              Cardinality(CallsOf(p, op)) <= 1
        /\ \A j, k \in CallsOf(p, "notify") : calls[p][j].to = calls[p][k].to => j = k
        /\ Cardinality({u \in uploads : u.owner = p /\ u.n = nreq[p]})
             <= Cardinality(CallsOf(p, "write"))
        /\ FailedCall(p, "download") \/ FailedCall(p, "ai") \/ FailedCall(p, "reply")
           \/ FailedCall(p, "read")
           => pc[p] = "done"

C22_Witness ==
    \E p \in Procs :
        /\ pc[p] = "done"
        /\ CallsOf(p, "write") # {}
        /\ UploadFailed(p)
        /\ FailedCall(p, "reply")
        /\ Cardinality(CallsOf(p, "reply")) = 1

\* no two users of the file have the same session id
Injective(file) ==
    \A u, v \in Users :
        (Known(file, u) /\ Known(file, v) /\ Lookup(file, u) = Lookup(file, v))
        => u = v

\* C23: in every snapshot the program persists no two users have the same
\* session id, so a session id of the snapshot belongs to one user
C23_Injective ==
    /\ Injective(remote)
    /\ \A i \in Instances : Injective(localFile[i])
    /\ \A u \in Users :
        Known(remote, u)
        => Cardinality({v \in Users : Known(remote, v)
                                      /\ Lookup(remote, v) = Lookup(remote, u)}) = 1

C23_Witness ==
    /\ \A u \in Users : Known(remote, u)
    /\ \E u, v \in Users :
        /\ u # v
        /\ Lookup(remote, u).random = Lookup(remote, v).random
        /\ Lookup(remote, u).timestamp = Lookup(remote, v).timestamp

NoBackslash(s) == \A i \in 1..Len(s) : s[i] # "\\"

Unslashed(s) == SelectSeq(s, LAMBDA c : c # "\\")

\* s without a quote in its first place and without a quote in its last
\* place, the last place being looked at after the first was dropped
WithoutEndQuotes(s) ==
    LET quotes == {"\"", "'"}
        from == IF Len(s) > 0 /\ s[1] \in quotes THEN 2 ELSE 1
        to == IF Len(s) >= from /\ s[Len(s)] \in quotes THEN Len(s) - 1 ELSE Len(s)
    IN  SubSeq(s, from, to)

\* s from its first to its last character that is not a blank
WithoutEndBlanks(s) ==
    LET inked == {i \in 1..Len(s) : s[i] # " "}
    IN  IF inked = {} THEN <<>>
        ELSE SubSeq(s, CHOOSE i \in inked : \A j \in inked : i <= j,
                       CHOOSE i \in inked : \A j \in inked : i >= j)

\* C25 as stated: the text relayed has no backslash and is the answer with
\* its backslashes removed and then one leading and one trailing quote dropped
C25_QuotesOnly ==
    vcall.result = "relayed"
    => /\ NoBackslash(vcall.relayed)
       /\ vcall.relayed = WithoutEndQuotes(Unslashed(vcall.reply))

\* C25: the text relayed has no backslash and is the answer with its
\* backslashes removed, then the blanks around it trimmed, then one leading
\* and one trailing quote dropped
C25_Sanitised ==
    vcall.result = "relayed"
    => /\ NoBackslash(vcall.relayed)
       /\ vcall.relayed = WithoutEndQuotes(WithoutEndBlanks(Unslashed(vcall.reply)))

C25_Witness ==
    /\ vcall.result = "relayed"
    /\ vcall.reply = <<"\"", "k", " ">>
    /\ vcall.relayed = <<"k">>

\* the step in which the snapshot of upload u replaces the bucket's object
Lands(u) == u \in uploads /\ u.st = "put" /\ uploads' = uploads \ {u}

\* nothing was written to the bucket since slot p downloaded the snapshot,
\* and no other upload is in flight
Sequential(p) == remote = loc[p].fetched /\ Cardinality(uploads) = 1

\* C26: when nothing else wrote to the store in between, the snapshot a
\* session creation uploads is the mapping of before with exactly the entry
\* of the new user added: every entry of before is there, unchanged
C26_Grows ==
    [][\A u \in uploads :
          (Lands(u) /\ Sequential(u.owner))
          => LET before == JsonParse(remote.entries)
                 after == JsonParse(remote'.entries)
                 userId == req[u.owner].from
             IN  /\ remote'.exists /\ remote'.ok
                 /\ userId \notin DOMAIN before
                 /\ DOMAIN after = DOMAIN before \cup {userId}
                 /\ \A k \in DOMAIN before : after[k] = before[k]
                 /\ after[userId] = loc[u.owner].sessionId]_vars

C26_Witness ==
    \E p \in Procs :
        /\ uploads = {}
        /\ CallsOf(p, "write") # {}
        /\ Known(loc[p].fetched, KeyOrder[1])
        /\ ~Known(loc[p].fetched, KeyOrder[2])
        /\ Known(remote, KeyOrder[1])
        /\ Lookup(remote, KeyOrder[1]) = Lookup(loc[p].fetched, KeyOrder[1])
        /\ Known(remote, KeyOrder[2])
        /\ Lookup(remote, KeyOrder[2]) = loc[p].sessionId

\* C27: a request that was handled got exactly one HTTP response, whatever
\* its method and payload
C27_OneResponse ==
    \A p \in Procs :
        /\ Len(resp[p]) <= 1
        /\ (pc[p] = "done" /\ req[p].method # "none") => Len(resp[p]) = 1

\* the request of slot p was answered with this status
Answered(p, status) == \E k \in DOMAIN resp[p] : resp[p][k].status = status

\* the header of slot p's request is present and, with its first "sha256="
\* removed, is the MAC of the raw body under the application's secret
PassedCheck(p) ==
    /\ req[p].signature # Undefined
    /\ ReplaceFirst(req[p].signature, Sha256Prefix)
         = HmacSha256Hex(req[p].rawBody, AppSecret)

\* C28 as stated: every POST answered 200 passed the authenticity check,
\* whatever its message content
C28_EveryPostVerified ==
    \A p \in Procs :
        (req[p].method = "POST" /\ Answered(p, 200)) => PassedCheck(p)

\* C28: every POST with a text message that is answered 200 passed the
\* authenticity check before anything else was done for it
C28_TextPostVerified ==
    \A p \in Procs :
        /\ (TextPost(p) /\ Answered(p, 200)) => PassedCheck(p)
        /\ (TextPost(p) /\ calls[p] # <<>>) => PassedCheck(p)

C28_Witness ==
    \E p \in Procs :
        /\ pc[p] = "done" /\ TextPost(p) /\ PassedCheck(p)
        /\ resp[p] = <<Response(200, "OK")>>

\* C29: the id getSessionId returns to a sender is the id it returned to
\* the same sender in the request served before, whether the upload of that
\* request is in flight, has failed or is over
C29_Stable ==
    \A p \in Procs :
        (Resolved(p) /\ loc[p].prior # NoSession) => loc[p].sessionId = loc[p].prior

\* both slots are through with their requests and with their uploads
Settled == uploads = {} /\ \A p \in Procs : pc[p] = "done"

\* C30: once two instances have created the sessions of two different new
\* users and both have written, the bucket's snapshot holds both users
C30_BothPersisted ==
    (/\ Settled
     /\ req["p1"].from # req["p2"].from
     /\ \A p \in Procs : CallsOf(p, "write") # {} /\ ~Known(loc[p].remote0, req[p].from))
    => \A p \in Procs :
          /\ Known(remote, req[p].from)
          /\ Lookup(remote, req[p].from) = loc[p].sessionId

\* C31: what an upload of the current request sends is a sessions.json that
\* holds the entry its save added, and the upload does not fail while the
\* bucket is available, whatever another request of the process does to the
\* local file in between
C31_UploadsWhatWasSaved ==
    \A u \in uploads :
        u.n = nreq[u.owner]
        => /\ u.st # "failed"
           /\ u.st = "put"
              => /\ Known(u.content, req[u.owner].from)
                 /\ Lookup(u.content, req[u.owner].from) = loc[u.owner].sessionId

\* the request made exactly one call op, and it was served
OneGoodCall(p, op) ==
    /\ Cardinality(CallsOf(p, op)) = 1
    /\ \A k \in CallsOf(p, op) : calls[p][k].ok

\* C32: a text POST answered 200 had its session resolved, got an answer of
\* Dialogflow, delivered it and marked the message as read, in this order,
\* before the response
C32_OkMeansDone ==
    \A p \in Procs :
        (TextPost(p) /\ Answered(p, 200))
        => /\ pc[p] = "done"
           /\ Resolved(p)
           /\ OneGoodCall(p, "ai") /\ OneGoodCall(p, "reply") /\ OneGoodCall(p, "read")
           /\ \A a \in CallsOf(p, "ai"), r \in CallsOf(p, "reply"), m \in CallsOf(p, "read") :
                /\ a < r /\ r < m
                /\ calls[p][a].sid = loc[p].sessionId
                /\ calls[p][r].to = req[p].from

C32_Witness ==
    \E p \in Procs :
        /\ TextPost(p) /\ resp[p] = <<Response(200, "OK")>>
        /\ OneGoodCall(p, "read")
        /\ CallsOf(p, "write") # {} /\ UploadFailed(p)
        /\ \E k \in CallsOf(p, "notify") : ~calls[p][k].ok

====
